---- MODULE Spec2Model ----
(***************************************************************************)
(* A model of src/src/main.py: the CSV loader with schema reconciliation,  *)
(* the SQL shell, the chat command and the error log.                      *)
(*                                                                         *)
(* The session is single-threaded.  Every action below is the code that    *)
(* runs between two calls of input(): the state variable pc says at which  *)
(* prompt the session is blocked.                                          *)
(*                                                                         *)
(* Text is modelled as a sequence of symbols.  DQ is the double-quote      *)
(* character, " " a blank; a letter is a one-letter string and an SQL type *)
(* word (INTEGER, ...) is one symbol.                                      *)
(***************************************************************************)
EXTENDS Integers, Sequences, FiniteSets, TLC

\* Number of commands the operator types at the "Command:" prompt.
MaxCmds == 3

DQ == "DQ"

-----------------------------------------------------------------------------
(* The CSV files on disk: what pd.read_csv makes of each of them.          *)

ColA  == <<"a">>
ColB  == <<"b">>
ColQQ == <<DQ, DQ>>     \* header field written """""" in the file: the name ""
ColQ  == <<DQ>>         \* header field written """" in the file: the name "

CSV ==
  [ ab   |-> [parse |-> TRUE,  cols |-> << <<ColA, "int64">>,   <<ColB, "object">> >>, nrows |-> 2],
    ab2  |-> [parse |-> TRUE,  cols |-> << <<ColA, "float64">>, <<ColB, "object">> >>, nrows |-> 1],
    qq   |-> [parse |-> TRUE,  cols |-> << <<ColQQ, "bool">> >>,                       nrows |-> 1],
    q    |-> [parse |-> TRUE,  cols |-> << <<ColQ, "int64">> >>,                       nrows |-> 1],
    bad  |-> [parse |-> FALSE, cols |-> << >>,                                         nrows |-> 0] ]

Files == DOMAIN CSV

\* A path for which os.path.exists is false.
MissingPath == "missing"

\* Table names the operator types (plain identifiers).
Names == {"T", "U"}

-----------------------------------------------------------------------------
(* The store: sqlite3 connection.  A table is its declared columns, as     *)
(* PRAGMA table_info reports them, and its rows.                           *)

NoTable == [exists |-> FALSE, cols |-> << >>, rows |-> << >>]

connect_db == [n \in Names |-> NoTable]

table_exists(conn, table_name) == conn[table_name].exists

\* PRAGMA table_info: (name, declared type) of every column, in order.
get_table_schema(conn, table_name) ==
  [i \in 1..Len(conn[table_name].cols) |->
     << conn[table_name].cols[i].name, conn[table_name].cols[i].type >>]

infer_sql_type(dtype) ==
  IF dtype \in {"int8", "int16", "int32", "int64", "uint8", "uint16", "uint32", "uint64"}
    THEN "INTEGER"
  ELSE IF dtype \in {"float16", "float32", "float64"} THEN "REAL"
  ELSE IF dtype = "bool" THEN "BOOLEAN"
  ELSE IF dtype \in {"datetime64[ns]", "datetime64[ns, UTC]"} THEN "TIMESTAMP"
  ELSE "TEXT"

\* inferred_schema = [(col, infer_sql_type(df[col].dtype)) for col in df.columns]
inferred_schema(df) ==
  [i \in 1..Len(df.cols) |-> << df.cols[i][1], infer_sql_type(df.cols[i][2]) >>]

\* column_defs = [f'"{col}" {sql_type}' for col, sql_type in inferred_schema]
column_defs(schema) ==
  [i \in 1..Len(schema) |-> <<DQ>> \o schema[i][1] \o <<DQ, " ">> \o <<schema[i][2]>>]

-----------------------------------------------------------------------------
(* What the store makes of a column definition.  A quoted identifier ends  *)
(* at the first double quote that is not doubled; a doubled one stands for *)
(* one double-quote character.  The definition is accepted when the        *)
(* identifier is followed by a blank and one type word; this is what       *)
(* SQLite does for the column names of CSV above (a name with two or more  *)
(* unpaired double quotes, which SQLite may read as a name and a longer    *)
(* type, is not among them).                                               *)

RECURSIVE ScanIdent(_, _, _)
ScanIdent(def, i, acc) ==
  IF i > Len(def) THEN [ok |-> FALSE, name |-> acc, rest |-> << >>]
  ELSE IF def[i] = DQ
    THEN IF i + 1 <= Len(def) /\ def[i + 1] = DQ
           THEN ScanIdent(def, i + 2, Append(acc, DQ))
           ELSE [ok |-> TRUE, name |-> acc, rest |-> SubSeq(def, i + 1, Len(def))]
    ELSE ScanIdent(def, i + 1, Append(acc, def[i]))

SqlTypeWords == {"INTEGER", "REAL", "BOOLEAN", "TIMESTAMP", "TEXT"}

ParseColumnDef(def) ==
  IF Len(def) = 0 \/ def[1] # DQ THEN [ok |-> FALSE, name |-> << >>, type |-> ""]
  ELSE LET id == ScanIdent(def, 2, << >>) IN
       IF id.ok /\ Len(id.rest) = 2 /\ id.rest[1] = " " /\ id.rest[2] \in SqlTypeWords
         THEN [ok |-> TRUE, name |-> id.name, type |-> id.rest[2]]
         ELSE [ok |-> FALSE, name |-> << >>, type |-> ""]

\* conn.execute('CREATE TABLE IF NOT EXISTS "<table_name>" (<defs>);')
\* The statement is parsed before the existence test; DDL is not run inside
\* a transaction by the sqlite3 module, so its effect is immediate.
ExecCreateIfNotExists(conn, table_name, defs) ==
  LET parsed == [i \in 1..Len(defs) |-> ParseColumnDef(defs[i])] IN
  IF \E i \in 1..Len(defs) : ~parsed[i].ok
    THEN [ok |-> FALSE, conn |-> conn]
  ELSE IF conn[table_name].exists
    THEN [ok |-> TRUE, conn |-> conn]
  ELSE [ok |-> TRUE,
        conn |-> [conn EXCEPT ![table_name] =
                    [exists |-> TRUE,
                     cols   |-> [i \in 1..Len(defs) |->
                                   [name |-> parsed[i].name, type |-> parsed[i].type]],
                     rows   |-> << >>]]]

ExecDropIfExists_keep(conn, table_name) == conn

\* conn.execute('DROP TABLE IF EXISTS "<table_name>"')
ExecDropIfExists(conn, table_name) == [conn EXCEPT ![table_name] = NoTable]

\* df.to_sql(table_name, conn, if_exists='append', index=False): one
\* executemany of INSERTs that name the frame's columns, inside a
\* transaction that is rolled back when any row fails.
to_sql(conn, df, f, table_name, fault) ==
  LET tcols == {conn[table_name].cols[i].name : i \in 1..Len(conn[table_name].cols)}
      dcols == {df.cols[i][1] : i \in 1..Len(df.cols)}
  IN IF fault \/ ~conn[table_name].exists \/ ~(dcols \subseteq tcols)
       THEN [ok |-> FALSE, conn |-> conn]
       ELSE [ok |-> TRUE,
             conn |-> [conn EXCEPT ![table_name].rows =
                         @ \o [k \in 1..df.nrows |-> <<f, k>>]]]

-----------------------------------------------------------------------------
(* Operator input: input().strip().lower()                                 *)

lower(c) ==
  CASE c = "O" -> "o" [] c = "R" -> "r" [] c = "S" -> "s"
    [] c = "Y" -> "y" [] c = "N" -> "n" [] OTHER -> c

RECURSIVE lstrip(_)
lstrip(s) == IF Len(s) > 0 /\ s[1] = " " THEN lstrip(Tail(s)) ELSE s

RECURSIVE rstrip(_)
rstrip(s) ==
  IF Len(s) > 0 /\ s[Len(s)] = " " THEN rstrip(SubSeq(s, 1, Len(s) - 1)) ELSE s

strip(s) == rstrip(lstrip(s))

strip_lower(s) == [i \in 1..Len(strip(s)) |-> lower(strip(s)[i])]

\* What the operator may type at "Choose an action: ".
ActionInputs == { <<"o">>, <<"O", " ">>, <<"r">>, <<" ", "R">>, <<"s">>, <<"x">>, << >> }

\* What the operator may type at "Run this query? [y/N]: ".
ConfirmInputs == { <<"y">>, <<" ", "Y">>, <<"n">>, <<"y", "e", "s">>, << >> }

-----------------------------------------------------------------------------
(* Statements typed in the SQL shell or drafted by the translator.         *)

Queries == { <<"SELECT", "T">>, <<"DROP", "T">>, <<"DROP", "U">>, <<"BAD">> }

\* conn.execute(query): the store's answer to a statement.
Execute(conn, query) ==
  IF Len(query) = 2 /\ query[1] = "SELECT" /\ query[2] \in Names /\ conn[query[2]].exists
    THEN [ok |-> TRUE, conn |-> conn, rows |-> conn[query[2]].rows]
  ELSE IF Len(query) = 2 /\ query[1] = "DROP" /\ query[2] \in Names /\ conn[query[2]].exists
    THEN [ok |-> TRUE, conn |-> [conn EXCEPT ![query[2]] = NoTable], rows |-> << >>]
  ELSE [ok |-> FALSE, conn |-> conn, rows |-> << >>]

-----------------------------------------------------------------------------
VARIABLES
  pc,            \* the prompt the session waits at
  store,         \* conn: the tables of the store
  log,           \* error_log.txt, one entry per log_error call
  out,           \* what the last step printed
  cmds,          \* commands typed at "Command:" so far
  csv_file,      \* load_csv_to_table: csv_file of the frame at a prompt
  table_name,    \* load_csv_to_table: table_name of the frame at a prompt
  renamed_from,  \* table_name of the calling frame, "" in the first call
  sql_query,     \* main: the candidate awaiting confirmation
  pre,           \* history: the store when the current command began
  prev,          \* history: <<file, name>> of the load that just returned, if
                 \* it began with the table absent and asked nothing
  lastLoaded,    \* history: per table, the file last loaded into it with success
  done           \* history: what the last step did

vars == <<pc, store, log, out, cmds, csv_file, table_name, renamed_from,
          sql_query, pre, prev, lastLoaded, done>>

NoErr == [kind |-> "none", op |-> "", query |-> << >>]

Done0 ==
  [cmd |-> "none", f |-> "", t |-> "", from |-> "", fresh |-> FALSE,
   conflict |-> FALSE, action |-> << >>, outcome |-> "", err |-> NoErr,
   submitted |-> FALSE, query |-> << >>, confirm |-> << >>, ai |-> ""]

\* log_error(message): append one line to error_log.txt
log_error(l, message) == Append(l, message)

Init ==
  /\ pc = "main"
  /\ store = connect_db
  /\ log = << >>
  /\ out = << >>
  /\ cmds = 0
  /\ csv_file = ""
  /\ table_name = ""
  /\ renamed_from = ""
  /\ sql_query = << >>
  /\ pre = connect_db
  /\ prev = << >>
  /\ lastLoaded = [n \in Names |-> ""]
  /\ done = Done0

-----------------------------------------------------------------------------
(* load_csv_to_table                                                       *)

StorageErr(op) == [kind |-> "storage", op |-> op, query |-> << >>]

\* Lines 74-80: CREATE TABLE IF NOT EXISTS, commit, to_sql, "Loaded ...".
\* An exception of either statement leaves the function through the except
\* clause with whatever the statements before it have done to the store.
create_and_load(conn, f, t, fault) ==
  LET df      == CSV[f]
      created == ExecCreateIfNotExists(conn, t, column_defs(inferred_schema(df)))
      filled  == to_sql(created.conn, df, f, t, fault)
  IN IF ~created.ok
       THEN [conn |-> conn, outcome |-> "error", err |-> StorageErr("load_csv_to_table")]
     ELSE IF ~filled.ok
       THEN [conn |-> created.conn, outcome |-> "error", err |-> StorageErr("load_csv_to_table")]
     ELSE [conn |-> filled.conn, outcome |-> "loaded", err |-> NoErr]

\* The function returns to main: lines 68-72 (skip), 80 (loaded), 82-84 (except).
load_return(f, t, rfrom, fresh, conflict, action, dropped, res) ==
  /\ pc' = "main"
  /\ store' = res.conn
  /\ log' = IF res.err.kind # "none"
              THEN log_error(log, [op |-> "load_csv_to_table", detail |-> res.err.kind,
                                   query |-> << >>])
              ELSE log
  /\ out' = CASE res.outcome = "loaded"  -> << <<"Loaded", f, t>> >>
              [] res.outcome = "skipped" -> << <<"Skipping table creation.">> >>
              [] res.outcome = "invalid" -> << <<"Invalid action. Skipping.">> >>
              [] OTHER                   -> << <<"Error loading CSV", res.err.kind>> >>
  /\ done' = [Done0 EXCEPT !.cmd = "load", !.f = f, !.t = t, !.from = rfrom,
                           !.fresh = fresh, !.conflict = conflict, !.action = action,
                           !.outcome = res.outcome, !.err = res.err]
  /\ prev' = IF rfrom = "" /\ fresh THEN <<f, t>> ELSE << >>
  /\ lastLoaded' = [n \in Names |->
                      IF n = t /\ res.outcome = "loaded" THEN f
                      ELSE IF n = t /\ dropped THEN ""
                      ELSE IF ~res.conn[n].exists THEN ""
                      ELSE lastLoaded[n]]
  /\ csv_file' = ""
  /\ table_name' = ""
  /\ renamed_from' = ""

\* Lines 49-60 and 74-84: one call, up to its return or its first prompt.
load_csv_to_table(f, t, rfrom, fault) ==
  LET df == CSV[f] IN
  IF ~df.parse
    THEN load_return(f, t, rfrom, ~table_exists(store, t), FALSE, << >>, FALSE,
                     [conn |-> store, outcome |-> "error",
                      err |-> [kind |-> "parse", op |-> "load_csv_to_table", query |-> << >>]])
  ELSE IF table_exists(store, t) /\ get_table_schema(store, t) # inferred_schema(df)
    THEN /\ pc' = "conflict"
         /\ csv_file' = f
         /\ table_name' = t
         /\ renamed_from' = rfrom
         /\ out' = << <<"Schema conflict detected", t>>, <<"Options">> >>
         /\ done' = [Done0 EXCEPT !.cmd = "load", !.f = f, !.t = t, !.from = rfrom,
                                  !.conflict = TRUE, !.outcome = "prompt"]
         /\ UNCHANGED <<store, log, prev, lastLoaded>>
  ELSE load_return(f, t, rfrom, ~table_exists(store, t), FALSE, << >>, FALSE,
                   create_and_load(store, f, t, fault))

decision_else_overwrite(action) ==
  IF action = <<"r">> THEN "rename"
  ELSE IF action = <<"s">> THEN "skip"
  ELSE "overwrite"

\* Lines 62-72: the if/elif chain on the operator's answer.
decision(action) ==
  IF action = <<"o">> THEN "overwrite"
  ELSE IF action = <<"r">> THEN "rename"
  ELSE IF action = <<"s">> THEN "skip"
  ELSE "invalid"

\* Lines 60-72 (and 74-84 after Overwrite): the answer to "Choose an action: ".
load_choose_action(raw, fault) ==
  /\ pc = "conflict"
  /\ LET action == strip_lower(raw)
         d      == decision(action)
     IN CASE d = "overwrite" ->
               load_return(csv_file, table_name, renamed_from, FALSE, TRUE, action, TRUE,
                           create_and_load(ExecDropIfExists(store, table_name),
                                           csv_file, table_name, fault))
          [] d = "rename" ->
               /\ pc' = "rename"
               /\ out' = << >>
               /\ done' = [done EXCEPT !.action = action]
               /\ UNCHANGED <<store, log, csv_file, table_name, renamed_from, prev, lastLoaded>>
          [] OTHER ->
               load_return(csv_file, table_name, renamed_from, FALSE, TRUE, action, FALSE,
                           [conn |-> store,
                            outcome |-> IF d = "skip" THEN "skipped" ELSE "invalid",
                            err |-> NoErr])
  /\ UNCHANGED <<cmds, sql_query, pre>>

load_enter_new_name_drop_old(new_table_name, fault) ==
  /\ pc = "rename"
  /\ store[table_name].exists
  /\ load_return(csv_file, new_table_name, table_name, ~table_exists(store, new_table_name),
                 FALSE, << >>, FALSE,
                 create_and_load(ExecDropIfExists(store, table_name), csv_file,
                                 new_table_name, fault))
  /\ UNCHANGED <<cmds, sql_query, pre>>

\* Lines 65-66: the answer to "Enter new table name: " and the recursive call.
load_enter_new_name(new_table_name, fault) ==
  /\ pc = "rename"
  /\ load_csv_to_table(csv_file, new_table_name, table_name, fault)
  /\ UNCHANGED <<cmds, sql_query, pre>>

\* main, lines 151-157: the load command.
main_load(path, t, fault) ==
  /\ pc = "main"
  /\ cmds < MaxCmds
  /\ cmds' = cmds + 1
  /\ pre' = store
  /\ sql_query' = << >>
  /\ IF path = MissingPath
       THEN /\ pc' = "main"
            /\ out' = << <<"File not found.">> >>
            /\ done' = [Done0 EXCEPT !.cmd = "load", !.outcome = "notfound"]
            /\ prev' = << >>
            /\ UNCHANGED <<store, log, csv_file, table_name, renamed_from, lastLoaded>>
       ELSE load_csv_to_table(path, t, "", fault)

-----------------------------------------------------------------------------
(* interactive_sql_shell                                                   *)

\* main, lines 159-160: the sql command enters the shell.
main_sql ==
  /\ pc = "main"
  /\ cmds < MaxCmds
  /\ cmds' = cmds + 1
  /\ pc' = "shell"
  /\ pre' = store
  /\ out' = << >>
  /\ done' = [Done0 EXCEPT !.cmd = "sql", !.outcome = "entered"]
  /\ prev' = << >>
  /\ UNCHANGED <<store, log, csv_file, table_name, renamed_from, sql_query, lastLoaded>>

\* Lines 89-100, one turn of the loop with a statement.
shell_query(query) ==
  /\ pc = "shell"
  /\ LET r == Execute(store, query) IN
       /\ store' = r.conn
       /\ out' = IF r.ok THEN << <<"rows", r.rows>> >> ELSE << <<"SQL Error", query>> >>
       /\ done' = [Done0 EXCEPT !.cmd = "sql", !.submitted = TRUE, !.query = query,
                     !.outcome = IF r.ok THEN "ok" ELSE "error",
                     !.err = IF r.ok THEN NoErr
                             ELSE [kind |-> "storage", op |-> "sql", query |-> query]]
       /\ lastLoaded' = [n \in Names |-> IF r.conn[n].exists THEN lastLoaded[n] ELSE ""]
  /\ prev' = << >>
  /\ UNCHANGED <<pc, log, cmds, csv_file, table_name, renamed_from, sql_query, pre>>

\* Lines 89-92: "exit" or "quit" leaves the shell.
shell_exit ==
  /\ pc = "shell"
  /\ pc' = "main"
  /\ out' = << <<"Exiting SQL shell...">> >>
  /\ done' = [Done0 EXCEPT !.cmd = "sql", !.outcome = "left"]
  /\ UNCHANGED <<store, log, cmds, csv_file, table_name, renamed_from, sql_query, pre,
                 prev, lastLoaded>>

-----------------------------------------------------------------------------
(* The chat command                                                        *)

\* get_all_tables_and_schema: every table with its (name, type) pairs.
get_all_tables_and_schema(conn) ==
  {<<n, get_table_schema(conn, n)>> : n \in {m \in Names : conn[m].exists}}

Requests == {"how many rows"}

\* What the call of the completion service inside the try block does: it
\* raises, or it yields a response with this content.  (With the imports of
\* line 4 the name openai of line 130 is unbound, so the call raises on every
\* run of the file as it stands; the other replies keep the candidate path
\* of main, lines 167-181, in the model.)
Replies ==
  {[raises |-> TRUE, content |-> << >>]} \cup
  {[raises |-> FALSE, content |-> c] : c \in Queries \cup { <<" ">>, <<" ", "SELECT", "T">> }}

ask_ai_for_sql_fallback(user_request, table_schema, reply) ==
  IF reply.raises
    THEN [none |-> FALSE, text |-> <<"SELECT", "T">>, logged |-> << >>, printed |-> << >>]
    ELSE [none |-> FALSE, text |-> strip(reply.content), logged |-> << >>, printed |-> << >>]

\* Lines 129-139: the try block and its except clause.
ask_ai_for_sql(user_request, table_schema, reply) ==
  IF reply.raises
    THEN [none |-> TRUE, text |-> << >>,
          logged  |-> << [op |-> "ask_ai_for_sql", detail |-> "completion", query |-> << >>] >>,
          printed |-> << <<"OpenAI Error">> >>]
    ELSE [none |-> FALSE, text |-> strip(reply.content), logged |-> << >>, printed |-> << >>]

\* main, lines 162-169: the chat command up to the confirmation prompt.
main_chat(user_request, reply) ==
  /\ pc = "main"
  /\ cmds < MaxCmds
  /\ cmds' = cmds + 1
  /\ pre' = store
  /\ prev' = << >>
  /\ LET schema == get_all_tables_and_schema(store)
         r      == ask_ai_for_sql(user_request, schema, reply)
     IN /\ log' = log \o r.logged
        /\ IF ~r.none /\ r.text # << >>
             THEN /\ pc' = "confirm"
                  /\ sql_query' = r.text
                  /\ out' = r.printed \o << <<"Generated SQL", r.text>> >>
                  /\ done' = [Done0 EXCEPT !.cmd = "chat", !.outcome = "prompt",
                                !.ai = IF reply.raises THEN "raised" ELSE "text"]
             ELSE /\ pc' = "main"
                  /\ sql_query' = << >>
                  /\ out' = r.printed
                  /\ done' = [Done0 EXCEPT !.cmd = "chat", !.outcome = "nocandidate",
                                !.ai = IF reply.raises THEN "raised" ELSE "empty",
                                !.err = IF reply.raises
                                          THEN [kind |-> "completion", op |-> "ask_ai_for_sql",
                                                query |-> << >>]
                                          ELSE NoErr]
  /\ UNCHANGED <<store, csv_file, table_name, renamed_from, lastLoaded>>

chat_confirm_unless_n(raw) ==
  /\ pc = "confirm"
  /\ pc' = "main"
  /\ sql_query' = << >>
  /\ LET confirm == strip_lower(raw)
         r       == Execute(store, sql_query)
     IN IF confirm # <<"n">>
          THEN /\ store' = r.conn
               /\ log' = log
               /\ out' = << <<"rows", r.rows>> >>
               /\ done' = [Done0 EXCEPT !.cmd = "chat", !.confirm = confirm, !.ai = "text",
                             !.submitted = TRUE, !.query = sql_query, !.outcome = "ok"]
               /\ lastLoaded' = [n \in Names |-> IF r.conn[n].exists THEN lastLoaded[n] ELSE ""]
          ELSE /\ out' = << >>
               /\ done' = [Done0 EXCEPT !.cmd = "chat", !.confirm = confirm, !.ai = "text",
                             !.outcome = "declined"]
               /\ UNCHANGED <<store, log, lastLoaded>>
  /\ UNCHANGED <<cmds, csv_file, table_name, renamed_from, pre, prev>>

\* main, lines 169-181: the answer to "Run this query? [y/N]: ".
chat_confirm(raw) ==
  /\ pc = "confirm"
  /\ pc' = "main"
  /\ sql_query' = << >>
  /\ LET confirm == strip_lower(raw)
         r       == Execute(store, sql_query)
     IN IF confirm = <<"y">>
          THEN /\ store' = r.conn
               /\ log' = IF r.ok THEN log
                         ELSE log_error(log, [op |-> "SQL Execution", detail |-> "storage",
                                              query |-> sql_query])
               /\ out' = IF ~r.ok THEN << <<"SQL Execution Error", sql_query>> >>
                         ELSE IF r.rows # << >> THEN << <<"rows", r.rows>> >>
                         ELSE << <<"Query executed. No rows returned.">> >>
               /\ done' = [Done0 EXCEPT !.cmd = "chat", !.confirm = confirm, !.ai = "text",
                             !.submitted = TRUE, !.query = sql_query,
                             !.outcome = IF r.ok THEN "ok" ELSE "error",
                             !.err = IF r.ok THEN NoErr
                                     ELSE [kind |-> "storage", op |-> "SQL Execution",
                                           query |-> sql_query]]
               /\ lastLoaded' = [n \in Names |-> IF r.conn[n].exists THEN lastLoaded[n] ELSE ""]
          ELSE /\ out' = << >>
               /\ done' = [Done0 EXCEPT !.cmd = "chat", !.confirm = confirm, !.ai = "text",
                             !.outcome = "declined"]
               /\ UNCHANGED <<store, log, lastLoaded>>
  /\ UNCHANGED <<cmds, csv_file, table_name, renamed_from, pre, prev>>

-----------------------------------------------------------------------------
\* main, lines 184-187: exit closes the connection and ends the session.
main_exit ==
  /\ pc = "main"
  /\ pc' = "exited"
  /\ out' = << <<"Exiting.">> >>
  /\ done' = [Done0 EXCEPT !.cmd = "exit"]
  /\ UNCHANGED <<store, log, cmds, csv_file, table_name, renamed_from, sql_query, pre,
                 prev, lastLoaded>>

\* main, lines 189-190: any other command.
main_invalid ==
  /\ pc = "main"
  /\ cmds < MaxCmds
  /\ cmds' = cmds + 1
  /\ out' = << <<"Invalid command. Try again.">> >>
  /\ done' = [Done0 EXCEPT !.cmd = "invalid"]
  /\ prev' = << >>
  /\ UNCHANGED <<pc, store, log, csv_file, table_name, renamed_from, sql_query, pre,
                 lastLoaded>>

Next ==
  \/ \E path \in Files \cup {MissingPath}, t \in Names, fault \in BOOLEAN :
       main_load(path, t, fault)
  \/ \E raw \in ActionInputs, fault \in BOOLEAN : load_choose_action(raw, fault)
  \/ \E n \in Names, fault \in BOOLEAN : load_enter_new_name(n, fault)
  \/ main_sql
  \/ \E q \in Queries : shell_query(q)
  \/ shell_exit
  \/ \E u \in Requests, reply \in Replies : main_chat(u, reply)
  \/ \E raw \in ConfirmInputs : chat_confirm(raw)
  \/ main_exit
  \/ main_invalid

Spec == Init /\ [][Next]_vars

\* The steps of a load that waits at one of its two prompts.
load_step ==
  \/ \E raw \in ActionInputs, fault \in BOOLEAN : load_choose_action(raw, fault)
  \/ \E n \in Names, fault \in BOOLEAN : load_enter_new_name(n, fault)

\* The session is one thread and the operator answers every prompt of a load:
\* a load that waits at a prompt takes its next step.  Which answer is given
\* is not constrained.
LiveSpec == Init /\ [][Next]_vars /\ WF_vars(load_step)

-----------------------------------------------------------------------------
(* Properties                                                              *)

Range(s) == {s[i] : i \in 1..Len(s)}

RowsOf(f) == [k \in 1..CSV[f].nrows |-> <<f, k>>]

\* A load_csv_to_table call has just returned to main.
LoadReturned == pc = "main" /\ done.cmd = "load" /\ done.outcome # "notfound"

C2_SkipLeavesStore ==
  (LoadReturned /\ done.conflict /\ done.action \notin {<<"o">>, <<"r">>}) =>
     /\ store = pre
     /\ done.outcome \in {"skipped", "invalid"}

C2_Witness ==
  /\ LoadReturned /\ done.conflict /\ done.outcome = "invalid" /\ done.action = <<"x">>
  /\ pre[done.t].rows # << >>

C2_WitnessSkip ==
  /\ LoadReturned /\ done.conflict /\ done.outcome = "skipped"
  /\ pre[done.t].rows # << >>

C4_ReloadNeverConflicts ==
  ~(pc = "conflict" /\ renamed_from = "" /\ prev = <<csv_file, table_name>>)

\* C5: every load_csv_to_table call returns either with the store as it was
\* before the call, or with the target table holding the inferred schema and
\* all rows of the source and every other table as before.
C5_LoadedOrNoOp ==
  LoadReturned =>
     \/ store = pre
     \/ /\ store[done.t].exists
        /\ get_table_schema(store, done.t) = inferred_schema(CSV[done.f])
        /\ Len(store[done.t].rows) >= CSV[done.f].nrows
        /\ SubSeq(store[done.t].rows,
                  Len(store[done.t].rows) - CSV[done.f].nrows + 1,
                  Len(store[done.t].rows)) = RowsOf(done.f)
        /\ \A n \in Names \ {done.t} : store[n] = pre[n]

\* C6: every table that exists has the schema inferred from the last dataset
\* that was loaded into it with success.
C6_SchemaOfLastLoad ==
  \A n \in Names :
     store[n].exists =>
        /\ lastLoaded[n] # ""
        /\ get_table_schema(store, n) = inferred_schema(CSV[lastLoaded[n]])

\* C7: in the chat command a statement is submitted to the store only from
\* the confirmation prompt, after the candidate was printed, when the answer
\* is 'y', and it is that candidate; with any other answer, and while the
\* candidate is being obtained, nothing is submitted and the store is left
\* as it is.
C7_RunOnlyAfterYes ==
  [][ /\ (done'.cmd = "chat" /\ done'.submitted) =>
            /\ pc = "confirm"
            /\ <<"Generated SQL", sql_query>> \in Range(out)
            /\ done'.query = sql_query
            /\ done'.confirm = <<"y">>
      /\ (done'.cmd = "chat" /\ ~(pc = "confirm" /\ done'.confirm = <<"y">>)) =>
            /\ ~done'.submitted
            /\ store' = store
    ]_vars

C7_Witness ==
  /\ pc = "main" /\ done.cmd = "chat" /\ done.submitted /\ done.confirm = <<"y">>
  /\ store # pre

C7_WitnessDeclined ==
  /\ pc = "main" /\ done.cmd = "chat" /\ done.outcome = "declined" /\ done.confirm = << >>

\* C8: when the completion call raises, ask_ai_for_sql appends one entry
\* tagged ask_ai_for_sql to the error log and yields no candidate; the chat
\* command submits nothing, leaves the store alone and the session is back
\* at the command prompt.
C8_CompletionFailure ==
  [][ (done'.cmd = "chat" /\ done'.ai = "raised") =>
         /\ pc' = "main"
         /\ sql_query' = << >>
         /\ ~done'.submitted
         /\ store' = store
         /\ Len(log') = Len(log) + 1
         /\ log'[Len(log')].op = "ask_ai_for_sql"
         /\ <<"OpenAI Error">> \in Range(out')
    ]_vars

C8_Witness ==
  /\ pc = "main" /\ done.cmd = "chat" /\ done.ai = "raised"
  /\ Len(log) > 0 /\ log[Len(log)].op = "ask_ai_for_sql"
  /\ \E n \in Names : store[n].exists

ErrorNotices == {"Error loading CSV", "SQL Error", "SQL Execution Error"}

\* C9: every step in which the store raises an error prints an error notice
\* and appends one entry to the error log; when the error is that of a
\* query, the entry holds the query.
C9_StorageErrorsLogged ==
  [][ done'.err.kind = "storage" =>
         /\ \E i \in 1..Len(out') : out'[i][1] \in ErrorNotices
         /\ Len(log') = Len(log) + 1
         /\ done'.err.query # << >> => log'[Len(log')].query = done'.err.query
    ]_vars

\* C10: a load that is waiting at a conflict prompt or at the new-name
\* prompt eventually returns to main, whatever the operator answers.
C10_LoadReturns ==
  (pc \in {"conflict", "rename"}) ~> (pc = "main")

====
